---- MODULE Spec2Model ----
(***************************************************************************)
(* A model of gdb-init-rust-stl.py: the `rinit` command                    *)
(* (InitRustStlCommand) and the load-time auto-loader                      *)
(* (InitRustPrettyPrinter).                                                *)
(*                                                                         *)
(* Text is modelled as a sequence of one-character strings, so that        *)
(* splitting, stripping, joining and pattern matching are computed rather  *)
(* than assumed.  The value "xFF" stands for one byte that is not valid    *)
(* UTF-8.  Python's None is the record None, a present value v is Some(v). *)
(***************************************************************************)
EXTENDS Naturals, Sequences, FiniteSets

VARIABLES
    pc,      \* "load": the script is being sourced; "loaded": line 150 has run;
             \* "idle": the debugger is at its prompt; "done": rinit has returned
             \* or raised; "sniff"/"sniffed": the file readers alone (SpecSniff)
    FORCE,   \* InitRustStlCommand.FORCE
    QUIET,   \* InitRustStlCommand.QUIET
    entry,   \* FORCE and QUIET as they were when the current rinit call began
    call,    \* what the current operation was given by its callers and the host
    ret      \* what the current operation did: text printed, directives issued,
             \* subprocesses started, exception raised, values of its locals

vars == <<pc, FORCE, QUIET, entry, call, ret>>

(***************************************************************************)
(* Bounds of the model.                                                    *)
(***************************************************************************)
\* The most tokens in one rinit argument string.
MaxArgs == 2
\* The most fragments a file given to the file readers alone is made of.
MaxPieces == 3

(***************************************************************************)
(* Text literals of the source, and of the inputs used.                    *)
(***************************************************************************)
s_rustc_prefix ==
    <<"/", "r", "u", "s", "t", "c", "/">>
s_rust_begin_unwind ==
    <<"r", "u", "s", "t", "_", "b", "e", "g", "i", "n", "_", "u", "n", "w", "i", "n", "d">>
s_rust_eh_personality ==
    <<"r", "u", "s", "t", "_", "e", "h", "_", "p", "e", "r", "s", "o", "n", "a", "l", "i", "t", "y">>
s_toolchains ==
    <<"t", "o", "o", "l", "c", "h", "a", "i", "n", "s">>
s_lib ==
    <<"l", "i", "b">>
s_rustlib ==
    <<"r", "u", "s", "t", "l", "i", "b">>
s_src ==
    <<"s", "r", "c">>
s_rust ==
    <<"r", "u", "s", "t">>
s_etc ==
    <<"e", "t", "c">>
s_set_substitute_path ==
    <<"s", "e", "t", " ", "s", "u", "b", "s", "t", "i", "t", "u", "t", "e", "-", "p", "a", "t", "h", " ">>
s_add_auto_load_safe_path ==
    <<"a", "d", "d", "-", "a", "u", "t", "o", "-", "l", "o", "a", "d", "-", "s", "a", "f", "e", "-", "p", "a", "t", "h", " ">>
s_dir ==
    <<"d", "i", "r", " ">>
s_flag_f ==
    <<"-", "f">>
s_flag_force ==
    <<"-", "-", "f", "o", "r", "c", "e">>
s_flag_q ==
    <<"-", "q">>
s_flag_quiet ==
    <<"-", "-", "q", "u", "i", "e", "t">>
s_tok_foo ==
    <<"f", "o", "o">>
s_tag_1_70_0 ==
    <<"1", ".", "7", "0", ".", "0">>
s_opt_rust ==
    <<"/", "o", "p", "t", "/", "r", "u", "s", "t">>
s_stable ==
    <<"s", "t", "a", "b", "l", "e", "-", "x", "8", "6", "_", "6", "4">>
s_home_user ==
    <<"/", "h", "o", "m", "e", "/", "u", "s", "e", "r", "/", ".", "r", "u", "s", "t", "u", "p">>
out_opt_rust ==
    <<"/", "o", "p", "t", "/", "r", "u", "s", "t", "\n">>
out_home_user ==
    <<"/", "h", "o", "m", "e", "/", "u", "s", "e", "r", "/", ".", "r", "u", "s", "t", "u", "p", "\n">>
out_trailing_sep ==
    <<"/", "r", "/", "\n">>
out_two_tokens ==
    <<"/", "a", " ", "b", "\n">>
out_stable_default ==
    <<"s", "t", "a", "b", "l", "e", "-", "x", "8", "6", "_", "6", "4", " ", "(", "d", "e", "f", "a", "u", "l", "t", ")", "\n">>
out_abs_toolchain ==
    <<"/", "t", "\n">>
out_blank ==
    <<" ", "\n">>

(***************************************************************************)
(* Python values and library functions the script uses.                    *)
(***************************************************************************)
None == [some |-> FALSE, val |-> <<>>]
Some(v) == [some |-> TRUE, val |-> v]

\* The characters str.split() and str.strip() treat as whitespace.
Whitespace == {" ", "\n", "\t"}

\* The byte that makes bytes.decode("utf-8") raise.
BadByte == "xFF"

RECURSIVE Concat(_)
\* The concatenation of a sequence of texts.
Concat(parts) ==
    IF parts = <<>> THEN <<>> ELSE Head(parts) \o Concat(Tail(parts))

RECURSIVE lstrip(_)
lstrip(s) ==
    IF s # <<>> /\ Head(s) \in Whitespace THEN lstrip(Tail(s)) ELSE s

RECURSIVE rstrip(_)
rstrip(s) ==
    IF s # <<>> /\ s[Len(s)] \in Whitespace
    THEN rstrip(SubSeq(s, 1, Len(s) - 1))
    ELSE s

\* str.strip(): leading and trailing whitespace removed.
strip(s) == rstrip(lstrip(s))

RECURSIVE word(_)
\* The longest whitespace-free prefix of s.
word(s) ==
    IF s = <<>> \/ Head(s) \in Whitespace THEN <<>> ELSE <<Head(s)>> \o word(Tail(s))

RECURSIVE split(_)
\* str.split(): the maximal whitespace-free runs of s, in order.
split(s) ==
    LET t == lstrip(s)
        w == word(t)
    IN  IF t = <<>> THEN <<>>
        ELSE <<w>> \o split(SubSeq(t, Len(w) + 1, Len(t)))

\* One step of posixpath.join: a component that starts with "/" replaces what
\* came before, a separator is added unless the path is empty or ends with one.
join_step(path, b) ==
    IF b # <<>> /\ Head(b) = "/" THEN b
    ELSE IF path = <<>> \/ path[Len(path)] = "/" THEN path \o b
    ELSE path \o <<"/">> \o b

RECURSIVE os_path_join(_, _)
\* os.path.join(a, *p)
os_path_join(a, p) ==
    IF p = <<>> THEN a ELSE os_path_join(join_step(a, Head(p)), Tail(p))

\* bytes.decode("utf-8") succeeds on b.
decodable(b) == \A i \in 1..Len(b) : b[i] # BadByte

\* pattern occurs in data at position i.
occurs_at(pattern, data, i) ==
    /\ i + Len(pattern) - 1 <= Len(data)
    /\ SubSeq(data, i, i + Len(pattern) - 1) = pattern

\* re.search(pattern, data) finds something, for a pattern of ordinary characters.
re_search(pattern, data) ==
    \E i \in 1..Len(data) : occurs_at(pattern, data, i)

RECURSIVE run_end(_, _)
\* The position of the last byte of the longest "/"-free run starting at i
\* (i - 1 when data[i] is "/" or i is past the end).
run_end(data, i) ==
    IF i > Len(data) \/ data[i] = "/" THEN i - 1 ELSE run_end(data, i + 1)

\* The end of the match of /rustc/[^/]+/ that starts at i, or 0 when none
\* does: [^/]+ takes the whole "/"-free run and a "/" has to follow it.
match_end(data, i) ==
    IF ~occurs_at(s_rustc_prefix, data, i) THEN 0
    ELSE LET first == i + Len(s_rustc_prefix)
             e == run_end(data, first)
         IN  IF e >= first /\ e + 1 <= Len(data) THEN e + 1 ELSE 0

RECURSIVE re_findall_from(_, _)
\* re.findall(rb"/rustc/[^/]+/", data): the non-overlapping matches, left to right.
re_findall_from(data, i) ==
    IF i > Len(data) THEN <<>>
    ELSE LET e == match_end(data, i)
         IN  IF e = 0 THEN re_findall_from(data, i + 1)
             ELSE <<SubSeq(data, i, e)>> \o re_findall_from(data, e + 1)

re_findall(data) == re_findall_from(data, 1)

(***************************************************************************)
(* Console messages.  A message is its fixed text and, for the two         *)
(* "failed with exit code" messages, the exit code formatted into it.      *)
(***************************************************************************)
Msg(text) == [text |-> text, code |-> <<>>]
MsgCode(text, returncode) == [text |-> text, code |-> <<returncode>>]

MSG_UNKNOWN_ARGS == Msg("Warning: Unknown arguments")
MSG_NOT_RUST ==
    Msg("Error: Current binary was not detected to be a Rust binary. If thats a false positive rerun with the '-f' flag")
MSG_RUSTUP_NOT_FOUND ==
    Msg("Error: rustup command not found. Make sure Rust is installed and rustup is in your PATH")
MSG_RUSTC_NOT_FOUND ==
    Msg("Error: rustc command not found. Make sure Rust is installed and rustc is in your PATH")
MSG_NO_RUSTLIB == Msg("Error: rustlib path not found in the binary")
MSG_HOME_FAILED(returncode) ==
    MsgCode("Error: 'rustup show home' failed with exit code", returncode)
MSG_TOOLCHAIN_FAILED(returncode) ==
    MsgCode("Error: 'rustup show active-toolchain' failed with exit code", returncode)
MSG_SYSROOT_FAILED(returncode) ==
    MsgCode("Error: 'rustc --print=sysroot' failed with exit code", returncode)

(***************************************************************************)
(* InitRustPrettyPrinter.                                                  *)
(*                                                                         *)
(* A subprocess outcome is [found, returncode, stdout]: found is FALSE     *)
(* when subprocess.run raises FileNotFoundError.                           *)
(***************************************************************************)
\* get_rustc_sysroot: the value returned and the text printed.
get_rustc_sysroot(proc) ==
    IF ~proc.found
    THEN [val |-> None, out |-> <<MSG_RUSTC_NOT_FOUND>>]
    ELSE IF proc.returncode = 0
    THEN [val |-> Some(strip(proc.stdout)), out |-> <<>>]
    ELSE [val |-> None, out |-> <<MSG_SYSROOT_FAILED(proc.returncode)>>]

\* A variant of load_pretty_printers that issues the two directives in the
\* other order.
load_pretty_printers_swapped(gdb_python_module_directory) ==
    << s_dir \o gdb_python_module_directory,
       s_add_auto_load_safe_path \o gdb_python_module_directory >>

\* load_pretty_printers: the directives passed to gdb.execute, in order.
load_pretty_printers(gdb_python_module_directory) ==
    << s_add_auto_load_safe_path \o gdb_python_module_directory,
       s_dir \o gdb_python_module_directory >>

\* InitRustPrettyPrinter.__init__
InitRustPrettyPrinter_init(proc) ==
    LET rustc_sysroot == get_rustc_sysroot(proc)
    IN  [ out |-> rustc_sysroot.out,
          calls |-> <<"rustc --print=sysroot">>,
          raised |-> "none",
          rustc_sysroot |-> rustc_sysroot.val,
          directives |->
              IF rustc_sysroot.val.some
              THEN load_pretty_printers(
                       os_path_join(rustc_sysroot.val.val, <<s_lib, s_rustlib, s_etc>>))
              ELSE <<>> ]

(***************************************************************************)
(* InitRustStlCommand.                                                     *)
(***************************************************************************)
\* gdb.string_to_argv on an argument string without quotes or backslashes:
\* its whitespace-separated words.
string_to_argv(arg) == split(arg)

ForceFlags == {s_flag_f, s_flag_force}
QuietFlags == {s_flag_q, s_flag_quiet}

\* parse_args: ArgumentParser.parse_known_args with the two store_true options;
\* every other word is returned, in order, as unknown.
parse_args(arg) ==
    LET argv == string_to_argv(arg)
    IN  [ force |-> \E i \in 1..Len(argv) : argv[i] \in ForceFlags,
          quiet |-> \E i \in 1..Len(argv) : argv[i] \in QuietFlags,
          unknown |-> SelectSeq(argv, LAMBDA w : w \notin ForceFlags \cup QuietFlags) ]

\* A variant of store_flags in which a flag, once set, stays set.
store_flags_sticky(self, parsed_args) ==
    [FORCE |-> self.FORCE \/ parsed_args.force, QUIET |-> self.QUIET \/ parsed_args.quiet]

\* invoke, lines 125-126: the two fields take the parsed values.
store_flags(self, parsed_args) ==
    [FORCE |-> parsed_args.force, QUIET |-> parsed_args.quiet]

\* A variant of con_print that prints whatever QUIET is.
con_print_always(self, out, message) == Append(out, message)

\* con_print: out with the message printed, unless QUIET.
con_print(self, out, message) ==
    IF ~self.QUIET THEN Append(out, message) ELSE out

\* open(binary_path, "rb") on the debugger's current file [has_path, readable,
\* data]: the exception raised, or "none".
open_raises(file) ==
    IF ~file.has_path THEN "TypeError"
    ELSE IF ~file.readable THEN "OSError"
    ELSE "none"

rust_strings == <<s_rust_begin_unwind, s_rust_eh_personality, s_rustc_prefix>>

\* is_rust_binary
is_rust_binary(file) ==
    IF open_raises(file) # "none"
    THEN [raised |-> open_raises(file), val |-> FALSE]
    ELSE [raised |-> "none",
          val |-> \E k \in 1..Len(rust_strings) : re_search(rust_strings[k], file.data)]

\* get_rustup_home: the value returned, the console afterwards, the exception
\* raised.  split()[0] raises IndexError when stdout holds no word.
get_rustup_home(self, out, proc) ==
    IF ~proc.found
    THEN [val |-> None, out |-> con_print(self, out, MSG_RUSTUP_NOT_FOUND), raised |-> "none"]
    ELSE IF proc.returncode = 0
    THEN IF split(proc.stdout) = <<>>
         THEN [val |-> None, out |-> out, raised |-> "IndexError"]
         ELSE [val |-> Some(strip(split(proc.stdout)[1])), out |-> out, raised |-> "none"]
    ELSE [val |-> None, out |-> con_print(self, out, MSG_HOME_FAILED(proc.returncode)),
          raised |-> "none"]

\* A variant of get_active_rust_toolchain that returns the whole trimmed output.
get_active_rust_toolchain_whole(self, out, proc) ==
    IF ~proc.found
    THEN [val |-> None, out |-> con_print(self, out, MSG_RUSTUP_NOT_FOUND), raised |-> "none"]
    ELSE IF proc.returncode = 0
    THEN [val |-> Some(strip(proc.stdout)), out |-> out, raised |-> "none"]
    ELSE [val |-> None, out |-> con_print(self, out, MSG_TOOLCHAIN_FAILED(proc.returncode)),
          raised |-> "none"]

\* get_active_rust_toolchain
get_active_rust_toolchain(self, out, proc) ==
    IF ~proc.found
    THEN [val |-> None, out |-> con_print(self, out, MSG_RUSTUP_NOT_FOUND), raised |-> "none"]
    ELSE IF proc.returncode = 0
    THEN IF split(proc.stdout) = <<>>
         THEN [val |-> None, out |-> out, raised |-> "IndexError"]
         ELSE [val |-> Some(strip(split(proc.stdout)[1])), out |-> out, raised |-> "none"]
    ELSE [val |-> None, out |-> con_print(self, out, MSG_TOOLCHAIN_FAILED(proc.returncode)),
          raised |-> "none"]

\* A variant of get_rustlib_path that returns the last match instead of the first.
get_rustlib_path_last(file) ==
    IF open_raises(file) # "none"
    THEN [raised |-> open_raises(file), val |-> None]
    ELSE LET rustlib_paths == re_findall(file.data)
             last == rustlib_paths[Len(rustlib_paths)]
         IN  IF rustlib_paths = <<>> THEN [raised |-> "none", val |-> None]
             ELSE IF ~decodable(last)
             THEN [raised |-> "UnicodeDecodeError", val |-> None]
             ELSE [raised |-> "none",
                   val |-> Some(SubSeq(strip(last), 1, Len(strip(last)) - 1))]

\* get_rustlib_path: rustlib_paths[0].decode("utf-8").strip()[:-1]
get_rustlib_path(file) ==
    IF open_raises(file) # "none"
    THEN [raised |-> open_raises(file), val |-> None]
    ELSE LET rustlib_paths == re_findall(file.data)
             first == rustlib_paths[1]
         IN  IF rustlib_paths = <<>> THEN [raised |-> "none", val |-> None]
             ELSE IF ~decodable(first)
             THEN [raised |-> "UnicodeDecodeError", val |-> None]
             ELSE [raised |-> "none",
                   val |-> Some(SubSeq(strip(first), 1, Len(strip(first)) - 1))]

\* A variant of toolchain_path that leaves out the "src" component.
toolchain_path_no_src(rustup_home, active_toolchain) ==
    os_path_join(rustup_home,
                 <<s_toolchains, active_toolchain, s_lib, s_rustlib, s_rust>>)

\* invoke, line 141.
toolchain_path(rustup_home, active_toolchain) ==
    os_path_join(rustup_home,
                 <<s_toolchains, active_toolchain, s_lib, s_rustlib, s_src, s_rust>>)

\* invoke, lines 139-147: the locals are all present, or nothing more is done.
invoke_substitute(r, file) ==
    IF ~(file.has_path /\ r.rustup_home.some /\ r.active_toolchain.some) THEN r
    ELSE LET rustlib_path == get_rustlib_path(file)
         IN  IF rustlib_path.raised # "none"
             THEN [r EXCEPT !.raised = rustlib_path.raised]
             ELSE IF rustlib_path.val.some /\ rustlib_path.val.val # <<>>
             THEN [r EXCEPT !.rustlib_path = rustlib_path.val,
                            !.extracted = TRUE,
                            !.directives = Append(@,
                                s_set_substitute_path \o rustlib_path.val.val \o <<" ">>
                                \o toolchain_path(r.rustup_home.val, r.active_toolchain.val))]
             ELSE [r EXCEPT !.rustlib_path = rustlib_path.val,
                            !.extracted = TRUE,
                            !.out = con_print(r.self, @, MSG_NO_RUSTLIB)]

\* invoke, lines 136-137: the two lookups, the second only if the first returned.
invoke_lookups(r, file, home_proc, toolchain_proc) ==
    LET rustup_home == get_rustup_home(r.self, r.out, home_proc)
        r1 == [r EXCEPT !.calls = Append(@, "rustup show home"),
                        !.out = rustup_home.out,
                        !.rustup_home = rustup_home.val,
                        !.raised = rustup_home.raised]
        active_toolchain == get_active_rust_toolchain(r.self, r1.out, toolchain_proc)
        r2 == [r1 EXCEPT !.calls = Append(@, "rustup show active-toolchain"),
                         !.out = active_toolchain.out,
                         !.active_toolchain = active_toolchain.val,
                         !.raised = active_toolchain.raised]
    IN  IF r1.raised # "none" THEN r1
        ELSE IF r2.raised # "none" THEN r2
        ELSE invoke_substitute(r2, file)

\* invoke: what one call does, given the fields of the command object, the
\* argument string, the debugger's current file and what the two rustup
\* subprocesses turn out to do.  con_write (line 129) is no attribute of the
\* class, so reaching it raises AttributeError.
invoke(self, arg, file, home_proc, toolchain_proc) ==
    LET parsed_args == parse_args(arg)
        r == [ self |-> store_flags(self, parsed_args),
               out |-> <<>>, directives |-> <<>>, calls |-> <<>>, raised |-> "none",
               gate |-> "none",
               rustup_home |-> None, active_toolchain |-> None,
               rustlib_path |-> None, extracted |-> FALSE ]
        rust == is_rust_binary(file)
    IN  IF parsed_args.unknown # <<>>
        THEN [r EXCEPT !.raised = "AttributeError"]
        ELSE IF r.self.FORCE
        THEN invoke_lookups([r EXCEPT !.gate = "forced"], file, home_proc, toolchain_proc)
        ELSE IF rust.raised # "none"
        THEN [r EXCEPT !.raised = rust.raised]
        ELSE IF ~rust.val
        THEN [r EXCEPT !.gate = "rejected",
                       !.out = con_print(r.self, @, MSG_NOT_RUST)]
        ELSE invoke_lookups([r EXCEPT !.gate = "matched"], file, home_proc, toolchain_proc)

(***************************************************************************)
(* The inputs the model draws from.                                        *)
(***************************************************************************)
\* The words an argument string is made of: the four spellings of the two
\* options, and a word that is neither.
Tokens == {s_flag_f, s_flag_force, s_flag_q, s_flag_quiet, s_tok_foo}

RECURSIVE join_words(_)
\* The words separated by single spaces, as typed after "rinit".
join_words(ws) ==
    IF ws = <<>> THEN <<>>
    ELSE IF Len(ws) = 1 THEN Head(ws)
    ELSE Head(ws) \o <<" ">> \o join_words(Tail(ws))

ArgStrings ==
    { join_words(ws) : ws \in UNION { [1..n -> Tokens] : n \in 0..MaxArgs } }

\* gdb.current_progspace().filename is None.
NoFile == [has_path |-> FALSE, readable |-> FALSE, data |-> <<>>]
\* A file name whose file cannot be opened.
UnreadableFile == [has_path |-> TRUE, readable |-> FALSE, data |-> <<>>]
ReadableFile(data) == [has_path |-> TRUE, readable |-> TRUE, data |-> data]

tag_1_70_0 == s_rustc_prefix \o s_tag_1_70_0 \o <<"/">>
tag_9 == s_rustc_prefix \o <<"9", "/">>

\* The files rinit is run on.
Files ==
    { NoFile, UnreadableFile }
    \cup { ReadableFile(d) : d \in
            { <<"E", "L", "F">>,
              <<"E">> \o s_rust_begin_unwind \o <<"F">>,
              s_rust_eh_personality,
              <<"E">> \o s_rustc_prefix \o <<"x">>,
              <<"E">> \o tag_1_70_0 \o s_lib,
              tag_9 \o <<" ">> \o tag_1_70_0,
              s_rustc_prefix \o <<BadByte, "/">> \o tag_9 } }

\* The fragments the files given to the file readers alone are made of.
Pieces ==
    { tag_1_70_0, tag_9, s_rustc_prefix, <<"/">>, <<"x">>, <<" ">>, <<BadByte>>,
      s_rust_begin_unwind, s_rust_eh_personality }

SniffFiles ==
    { ReadableFile(Concat(ps)) : ps \in UNION { [1..n -> Pieces] : n \in 0..MaxPieces } }

ProcNotFound == [found |-> FALSE, returncode |-> 0, stdout |-> <<>>]
ProcFailed == [found |-> TRUE, returncode |-> 1, stdout |-> <<>>]
ProcOk(stdout) == [found |-> TRUE, returncode |-> 0, stdout |-> stdout]

\* What "rustup show home" may do.
HomeProcs ==
    { ProcNotFound, ProcFailed }
    \cup { ProcOk(o) : o \in { <<>>, out_blank, out_opt_rust, out_home_user, out_trailing_sep, out_two_tokens } }

\* What "rustup show active-toolchain" may do.
ToolchainProcs ==
    { ProcNotFound, ProcFailed }
    \cup { ProcOk(o) : o \in { <<>>, out_stable_default, out_abs_toolchain } }

\* What "rustc --print=sysroot" may do.
RustcProcs ==
    { ProcNotFound, ProcFailed }
    \cup { ProcOk(o) : o \in { <<>>, out_home_user, out_opt_rust, out_trailing_sep, out_two_tokens } }

(***************************************************************************)
(* The state machine.                                                      *)
(***************************************************************************)
NoCall == [op |-> "none"]
NoRet == [op |-> "none"]
NoEntry == [FORCE |-> FALSE, QUIET |-> FALSE]

\* The class attributes, before line 150 has run.
Init ==
    /\ pc = "load"
    /\ FORCE = FALSE
    /\ QUIET = FALSE
    /\ entry = NoEntry
    /\ call = NoCall
    /\ ret = NoRet

\* Line 150: the auto-loader runs, once, while the script is sourced.
Load ==
    /\ pc = "load"
    /\ \E proc \in RustcProcs :
         /\ call' = [op |-> "InitRustPrettyPrinter", rustc_proc |-> proc]
         /\ ret' = InitRustPrettyPrinter_init(proc)
    /\ pc' = "loaded"
    /\ UNCHANGED <<FORCE, QUIET, entry>>

\* The debugger is back at its prompt; the record of the last operation is
\* dropped, the command object keeps its fields.
Prompt ==
    /\ pc \in {"loaded", "done"}
    /\ pc' = "idle"
    /\ entry' = NoEntry
    /\ call' = NoCall
    /\ ret' = NoRet
    /\ UNCHANGED <<FORCE, QUIET>>

\* The user, or an event handler, runs "rinit <arg>".
Invoke ==
    /\ pc = "idle"
    /\ \E arg \in ArgStrings, file \in Files,
          home_proc \in HomeProcs, toolchain_proc \in ToolchainProcs :
         LET r == invoke([FORCE |-> FORCE, QUIET |-> QUIET],
                         arg, file, home_proc, toolchain_proc)
         IN  /\ call' = [op |-> "invoke", arg |-> arg, file |-> file,
                         home_proc |-> home_proc, toolchain_proc |-> toolchain_proc]
             /\ ret' = r
             /\ FORCE' = r.self.FORCE
             /\ QUIET' = r.self.QUIET
    /\ entry' = [FORCE |-> FORCE, QUIET |-> QUIET]
    /\ pc' = "done"

Next == Load \/ Prompt \/ Invoke

Spec == Init /\ [][Next]_vars

\* The file readers alone, on any file made of the fragments.
InitSniff ==
    /\ pc = "sniff"
    /\ FORCE = FALSE
    /\ QUIET = FALSE
    /\ entry = NoEntry
    /\ call \in { [op |-> "sniff", file |-> f] : f \in SniffFiles }
    /\ ret = NoRet

Sniff ==
    /\ pc = "sniff"
    /\ ret' = [ is_rust_binary |-> is_rust_binary(call.file),
                get_rustlib_path |-> get_rustlib_path(call.file) ]
    /\ pc' = "sniffed"
    /\ UNCHANGED <<FORCE, QUIET, entry, call>>

NextSniff == Sniff

SpecSniff == InitSniff /\ [][NextSniff]_vars

(***************************************************************************)
(* What the properties below speak of, said without the operators of the   *)
(* model.                                                                  *)
(***************************************************************************)
Done == pc = "done"
Completed == Done /\ ret.raised = "none"

\* data[i..j] is a match of '/rustc/' + one or more non-'/' bytes + '/'.
IsTagMatch(data, i, j) ==
    /\ i >= 1 /\ j <= Len(data) /\ j >= i + Len(s_rustc_prefix) + 1
    /\ \A k \in 1..Len(s_rustc_prefix) : data[i + k - 1] = s_rustc_prefix[k]
    /\ \A k \in (i + Len(s_rustc_prefix))..(j - 1) : data[k] # "/"
    /\ data[j] = "/"

HasTagMatch(data) ==
    \E i \in 1..Len(data), j \in 1..Len(data) : IsTagMatch(data, i, j)

\* data[i..j] is the match that starts at the lowest offset.
IsFirstTagMatch(data, i, j) ==
    /\ IsTagMatch(data, i, j)
    /\ \A i2 \in 1..(i - 1), j2 \in 1..Len(data) : ~IsTagMatch(data, i2, j2)

\* The bytes of a match between its '/rustc/' and its last '/'.
TagOf(data, i, j) == SubSeq(data, i + Len(s_rustc_prefix), j - 1)

\* One of the three markers occurs in data.
HasMarker(data) ==
    \E m \in {s_rust_begin_unwind, s_rust_eh_personality, s_rustc_prefix} :
        \E i \in 1..Len(data) :
            /\ i + Len(m) - 1 <= Len(data)
            /\ \A k \in 1..Len(m) : data[i + k - 1] = m[k]

\* s holds a character that is not whitespace.
HasWord(s) == \E i \in 1..Len(s) : s[i] \notin Whitespace

\* w is the first whitespace-delimited token of s.
IsFirstToken(s, w) ==
    /\ Len(w) >= 1
    /\ \E i \in 1..Len(s) :
         /\ \A k \in 1..(i - 1) : s[k] \in Whitespace
         /\ i + Len(w) - 1 <= Len(s)
         /\ \A k \in 1..Len(w) : w[k] = s[i + k - 1] /\ w[k] \notin Whitespace
         /\ (i + Len(w) > Len(s) \/ s[i + Len(w)] \in Whitespace)

\* w is s without its leading and trailing whitespace.
IsTrimmed(s, w) ==
    IF ~HasWord(s) THEN w = <<>>
    ELSE \E i \in 1..Len(s), j \in 1..Len(s) :
           /\ i <= j /\ s[i] \notin Whitespace /\ s[j] \notin Whitespace
           /\ \A k \in 1..(i - 1) : s[k] \in Whitespace
           /\ \A k \in (j + 1)..Len(s) : s[k] \in Whitespace
           /\ w = SubSeq(s, i, j)

ProcSucceeded(proc) == proc.found /\ proc.returncode = 0

\* The words of the argument string that are neither option.
UnknownWords(arg) ==
    SelectSeq(split(arg), LAMBDA w : w \notin ForceFlags \cup QuietFlags)
ForceGiven(arg) == \E i \in 1..Len(split(arg)) : split(arg)[i] \in ForceFlags
QuietGiven(arg) == \E i \in 1..Len(split(arg)) : split(arg)[i] \in QuietFlags

\* The number of times message m is in out.
Count(out, m) == Cardinality({ i \in 1..Len(out) : out[i] = m })

(***************************************************************************)
(* C1.  Tokens other than -f/--force and -q/--quiet are reported as a      *)
(* warning and the invocation then proceeds exactly as it would without    *)
(* them: it raises nothing the invocation without them does not raise,     *)
(* runs the same subprocesses and issues the same directive.               *)
(***************************************************************************)
C1_UnknownTokensDoNotAbort ==
    (Done /\ UnknownWords(call.arg) # <<>> /\ call.file.has_path /\ call.file.readable) =>
        LET known == SelectSeq(split(call.arg), LAMBDA w : w \in ForceFlags \cup QuietFlags)
            same == invoke(entry, join_words(known), call.file,
                           call.home_proc, call.toolchain_proc)
        IN  /\ ret.raised = same.raised
            /\ ret.calls = same.calls
            /\ ret.directives = same.directives
            /\ (~QuietGiven(call.arg) => Count(ret.out, MSG_UNKNOWN_ARGS) = 1)

(***************************************************************************)
(* C2.  As claimed: get_rustlib_path returns the first match by byte       *)
(* offset with both the '/rustc/' prefix and the trailing '/' stripped,    *)
(* and nothing when there is no match.                                     *)
(***************************************************************************)
C2_TagWithoutPrefix ==
    pc = "sniffed" =>
        LET data == call.file.data
            got == ret.get_rustlib_path
        IN  IF ~HasTagMatch(data) THEN got.raised = "none" /\ got.val = None
            ELSE \E i \in 1..Len(data), j \in 1..Len(data) :
                   /\ IsFirstTagMatch(data, i, j)
                   /\ got.raised = "none"
                   /\ got.val = Some(TagOf(data, i, j))

(***************************************************************************)
(* C2, amended.  get_rustlib_path returns the first match by byte offset   *)
(* with only its trailing '/' stripped: the '/rustc/' prefix is kept.  It  *)
(* returns nothing when there is no match, and raises UnicodeDecodeError   *)
(* when the first match is not valid UTF-8.                                *)
(***************************************************************************)
C2_FirstMatchKeepsPrefix ==
    pc = "sniffed" =>
        LET data == call.file.data
            got == ret.get_rustlib_path
        IN  IF ~HasTagMatch(data) THEN got.raised = "none" /\ got.val = None
            ELSE \E i \in 1..Len(data), j \in 1..Len(data) :
                   /\ IsFirstTagMatch(data, i, j)
                   /\ IF \E k \in i..j : data[k] = BadByte
                      THEN got.raised = "UnicodeDecodeError"
                      ELSE /\ got.raised = "none"
                           /\ got.val = Some(s_rustc_prefix \o TagOf(data, i, j))

\* C2: a file with two different tags, the first of which was returned.
C2_Witness ==
    /\ pc = "sniffed"
    /\ call.file.data = tag_9 \o tag_1_70_0
    /\ ret.get_rustlib_path.val = Some(s_rustc_prefix \o <<"9">>)

(***************************************************************************)
(* C3.  With force unset and a binary that holds none of the three         *)
(* markers, no rustup subprocess is run, no tag is extracted, no directive *)
(* is issued, the guidance message is printed when quiet is unset and      *)
(* nothing is printed when quiet is set.                                   *)
(***************************************************************************)
C3_NonMatchingBinaryStops ==
    ( /\ Done
      /\ ~ForceGiven(call.arg)
      /\ call.file.has_path /\ call.file.readable
      /\ ~HasMarker(call.file.data) ) =>
        /\ ret.calls = <<>>
        /\ ~ret.extracted
        /\ ret.directives = <<>>
        /\ (QuietGiven(call.arg) => ret.out = <<>>)
        /\ (~QuietGiven(call.arg) =>
                /\ Count(ret.out, MSG_NOT_RUST) = 1
                /\ \A i \in 1..Len(ret.out) : ret.out[i] \in {MSG_NOT_RUST, MSG_UNKNOWN_ARGS})

(***************************************************************************)
(* C5.  Whatever the two rustup subprocesses do, an invocation on a        *)
(* readable binary returns normally.  (Stated for argument strings of      *)
(* options only and binaries whose tag, if any, is valid UTF-8, so that    *)
(* only the rustup outcomes are left to decide it.)                        *)
(***************************************************************************)
C5_RustupOutcomeNeverRaises ==
    ( /\ Done
      /\ UnknownWords(call.arg) = <<>>
      /\ call.file.has_path /\ call.file.readable
      /\ \A k \in 1..Len(call.file.data) : call.file.data[k] # BadByte ) =>
        ret.raised = "none"

(***************************************************************************)
(* C7.  An invocation with quiet unset that completes without issuing a    *)
(* directive has printed at least one message.                             *)
(***************************************************************************)
C7_NoDirectiveIsExplained ==
    (Completed /\ ~QuietGiven(call.arg) /\ ret.directives = <<>>) => ret.out # <<>>

(***************************************************************************)
(* Text literals of the properties.                                        *)
(***************************************************************************)
s_lit_toolchains ==
    <<"/", "t", "o", "o", "l", "c", "h", "a", "i", "n", "s", "/">>
s_lit_src_rust ==
    <<"/", "l", "i", "b", "/", "r", "u", "s", "t", "l", "i", "b", "/", "s", "r", "c", "/", "r", "u", "s", "t">>
s_lit_etc ==
    <<"/", "l", "i", "b", "/", "r", "u", "s", "t", "l", "i", "b", "/", "e", "t", "c">>
directive_1_70_0 ==
    <<"s", "e", "t", " ", "s", "u", "b", "s", "t", "i", "t", "u", "t", "e", "-", "p", "a", "t", "h", " ", "/", "r", "u", "s", "t", "c", "/", "1", ".", "7", "0", ".", "0", " ", "/", "o", "p", "t", "/", "r", "u", "s", "t", "/", "t", "o", "o", "l", "c", "h", "a", "i", "n", "s", "/", "s", "t", "a", "b", "l", "e", "-", "x", "8", "6", "_", "6", "4", "/", "l", "i", "b", "/", "r", "u", "s", "t", "l", "i", "b", "/", "s", "r", "c", "/", "r", "u", "s", "t">>
directive_safe_path_opt_rust ==
    <<"a", "d", "d", "-", "a", "u", "t", "o", "-", "l", "o", "a", "d", "-", "s", "a", "f", "e", "-", "p", "a", "t", "h", " ", "/", "o", "p", "t", "/", "r", "u", "s", "t", "/", "l", "i", "b", "/", "r", "u", "s", "t", "l", "i", "b", "/", "e", "t", "c">>
directive_dir_opt_rust ==
    <<"d", "i", "r", " ", "/", "o", "p", "t", "/", "r", "u", "s", "t", "/", "l", "i", "b", "/", "r", "u", "s", "t", "l", "i", "b", "/", "e", "t", "c">>

\* s without its first character.
Rest(s) == SubSeq(s, 2, Len(s))

(***************************************************************************)
(* C4.  The case the claim is about: the gate passed (force was given, or  *)
(* the file holds a marker), both lookups returned a value (R and T) and   *)
(* tag extraction found a tag.                                             *)
(***************************************************************************)
C4_Case ==
    /\ Done
    /\ ForceGiven(call.arg) \/ (call.file.readable /\ HasMarker(call.file.data))
    /\ ret.rustup_home.some /\ ret.active_toolchain.some
    /\ ret.extracted /\ ret.rustlib_path.some

\* The only directive issued is 'set substitute-path /rustc/V L', V being the
\* tag of the first match in the file the invocation read.
C4_Issued(L) ==
    \E i \in 1..Len(call.file.data), j \in 1..Len(call.file.data) :
        /\ IsFirstTagMatch(call.file.data, i, j)
        /\ ret.directives =
             << s_set_substitute_path \o s_rustc_prefix \o TagOf(call.file.data, i, j)
                \o <<" ">> \o L >>

C6_QuietIsSilentAndChangesNoDirective ==
    (Done /\ QuietGiven(call.arg)) =>
        LET loud == SelectSeq(split(call.arg), LAMBDA w : w \notin QuietFlags)
            same == invoke(entry, join_words(loud), call.file,
                           call.home_proc, call.toolchain_proc)
        IN  /\ ret.out = <<>>
            /\ ret.directives = same.directives

\* C6: a quiet invocation that found no rustup, said nothing and returned.
C6_Witness ==
    /\ Completed
    /\ QuietGiven(call.arg)
    /\ ~call.home_proc.found
    /\ ret.calls = <<"rustup show home", "rustup show active-toolchain">>
    /\ ret.out = <<>>

(***************************************************************************)
(* C8.  As claimed: the auto-loader runs rustc once; on exit status zero   *)
(* with root S it issues 'add-auto-load-safe-path S/lib/rustlib/etc' and   *)
(* then 'dir S/lib/rustlib/etc' and nothing else; when rustc is not found  *)
(* or fails it prints a diagnostic and issues nothing; it never raises.    *)
(***************************************************************************)
C8_DirectoryIsLiteralPath ==
    pc = "loaded" =>
        /\ ret.raised = "none"
        /\ ret.calls = <<"rustc --print=sysroot">>
        /\ IF ProcSucceeded(call.rustc_proc)
           THEN /\ ret.rustc_sysroot.some
                /\ ret.directives =
                     << s_add_auto_load_safe_path \o ret.rustc_sysroot.val \o s_lit_etc,
                        s_dir \o ret.rustc_sysroot.val \o s_lit_etc >>
           ELSE /\ Len(ret.out) = 1
                /\ ret.directives = <<>>

(***************************************************************************)
(* C8, amended.  As C8, with the directory being S and lib, rustlib, etc   *)
(* joined as os.path.join joins them: S/lib/rustlib/etc when S is not      *)
(* empty and does not end with '/', and S followed by lib/rustlib/etc when *)
(* S is empty or ends with '/'.                                            *)
(***************************************************************************)
C8_DirectoryIsJoinedPath ==
    pc = "loaded" =>
        /\ ret.raised = "none"
        /\ ret.calls = <<"rustc --print=sysroot">>
        /\ IF ProcSucceeded(call.rustc_proc)
           THEN LET S == ret.rustc_sysroot.val
                    D == IF S = <<>> \/ S[Len(S)] = "/"
                         THEN S \o Rest(s_lit_etc)
                         ELSE S \o s_lit_etc
                IN  /\ ret.rustc_sysroot.some
                    /\ ret.out = <<>>
                    /\ ret.directives = << s_add_auto_load_safe_path \o D, s_dir \o D >>
           ELSE /\ Len(ret.out) = 1
                /\ ret.directives = <<>>

\* C8: rustc printed /opt/rust and the two directives were issued in order.
C8_Witness ==
    /\ pc = "loaded"
    /\ call.rustc_proc = ProcOk(out_opt_rust)
    /\ ret.directives = <<directive_safe_path_opt_rust, directive_dir_opt_rust>>

(***************************************************************************)
(* C9.  Which of the two rustup subprocesses the invocation ran.          *)
(***************************************************************************)
C9_HomeRan == Done /\ Len(ret.calls) >= 1
C9_ToolchainRan == Done /\ Len(ret.calls) >= 2

\* proc failed, or was not found, and the script took no value from it.
C9_NoValue(proc, value) == ~ProcSucceeded(proc) => value = None

(***************************************************************************)
(* C9.  As claimed: for each of the three commands, exit status zero       *)
(* gives the first whitespace-delimited token of standard output, and a    *)
(* nonzero exit status or a missing executable gives no value.             *)
(***************************************************************************)
C9_ValueIsFirstToken ==
    /\ pc = "loaded" =>
         /\ C9_NoValue(call.rustc_proc, ret.rustc_sysroot)
         /\ (ProcSucceeded(call.rustc_proc) /\ HasWord(call.rustc_proc.stdout)) =>
                /\ ret.rustc_sysroot.some
                /\ IsFirstToken(call.rustc_proc.stdout, ret.rustc_sysroot.val)
    /\ C9_HomeRan =>
         /\ C9_NoValue(call.home_proc, ret.rustup_home)
         /\ (ProcSucceeded(call.home_proc) /\ HasWord(call.home_proc.stdout)) =>
                /\ ret.rustup_home.some
                /\ IsFirstToken(call.home_proc.stdout, ret.rustup_home.val)
    /\ C9_ToolchainRan =>
         /\ C9_NoValue(call.toolchain_proc, ret.active_toolchain)
         /\ (ProcSucceeded(call.toolchain_proc) /\ HasWord(call.toolchain_proc.stdout)) =>
                /\ ret.active_toolchain.some
                /\ IsFirstToken(call.toolchain_proc.stdout, ret.active_toolchain.val)

(***************************************************************************)
(* C9, amended.  For 'rustup show home' and 'rustup show active-toolchain' *)
(* exit status zero gives the first whitespace-delimited token of standard *)
(* output, when it has one; for 'rustc --print=sysroot' exit status zero   *)
(* gives the whole standard output without its leading and trailing        *)
(* whitespace, which may hold whitespace inside and may be empty.  For all *)
(* three a nonzero exit status or a missing executable gives no value.     *)
(***************************************************************************)
C9_RustupFirstTokenRustcTrimmed ==
    /\ pc = "loaded" =>
         /\ C9_NoValue(call.rustc_proc, ret.rustc_sysroot)
         /\ ProcSucceeded(call.rustc_proc) =>
                /\ ret.rustc_sysroot.some
                /\ IsTrimmed(call.rustc_proc.stdout, ret.rustc_sysroot.val)
    /\ C9_HomeRan =>
         /\ C9_NoValue(call.home_proc, ret.rustup_home)
         /\ (ProcSucceeded(call.home_proc) /\ HasWord(call.home_proc.stdout)) =>
                /\ ret.rustup_home.some
                /\ IsFirstToken(call.home_proc.stdout, ret.rustup_home.val)
    /\ C9_ToolchainRan =>
         /\ C9_NoValue(call.toolchain_proc, ret.active_toolchain)
         /\ (ProcSucceeded(call.toolchain_proc) /\ HasWord(call.toolchain_proc.stdout)) =>
                /\ ret.active_toolchain.some
                /\ IsFirstToken(call.toolchain_proc.stdout, ret.active_toolchain.val)

\* C9: the claim's example for the install root, and a toolchain line of two
\* tokens of which the first was taken.
C9_Witness ==
    /\ Done
    /\ call.home_proc = ProcOk(out_home_user)
    /\ ret.rustup_home = Some(s_home_user)
    /\ call.toolchain_proc = ProcOk(out_stable_default)
    /\ ret.active_toolchain = Some(s_stable)

(***************************************************************************)
(* C10.  In any sequence of invocations, after each one the stored FORCE   *)
(* and QUIET are the options of its own argument string, and what it       *)
(* printed, issued, ran and raised is what a first invocation (both        *)
(* fields FALSE at entry) does with the same argument string, file and     *)
(* rustup outcomes.                                                        *)
(***************************************************************************)
C10_NoFlagCarriesOver ==
    Done =>
        /\ FORCE = ForceGiven(call.arg)
        /\ QUIET = QuietGiven(call.arg)
        /\ ret = invoke(NoEntry, call.arg, call.file, call.home_proc, call.toolchain_proc)

\* C10: both fields were set by the invocation before; this one, given no
\* option, applied the gate and printed the guidance message.
C10_Witness ==
    /\ Done
    /\ entry.FORCE /\ entry.QUIET
    /\ ~FORCE /\ ~QUIET
    /\ ret.gate = "rejected"
    /\ ret.out = <<MSG_NOT_RUST>>

====
